---- MODULE Spec2Model ----
(***************************************************************************)
(* Model of cyhy_config: the resolution of a CyHy configuration from SSM   *)
(* or from the first existing file of a precedence chain.                  *)
(*                                                                         *)
(* Strings that name paths or SSM parameters are sequences of components;  *)
(* a TOML text is a sequence of lines, a line a sequence of tokens.        *)
(* Every operation returns its outcome together with the observable        *)
(* events (log records, filesystem probes, SSM requests) in program order. *)
(***************************************************************************)
EXTENDS Integers, Sequences, FiniteSets, TLC

\* environ           os.environ (cyhy_config.py line 17)
\* fs                the filesystem seen by Path.exists, os.path.isfile, open
\* ssm               the parameter store behind client("ssm").get_parameter
\* call              the public function called and its arguments
\* result            what the call returned or raised
\* events            the call's log records and external calls, in program order
\* config_file_path  get_config's local of that name (line 80)
VARIABLES environ, fs, ssm, call, result, events, config_file_path

vars == <<environ, fs, ssm, call, result, events, config_file_path>>

(***************************************************************************)
(* Module constants                                                        *)
(***************************************************************************)
HOME == <<"/", "home", "cyhy">>
CONFIG_PATH_CWD == <<"cyhy.toml">>
CONFIG_PATH_ETC == <<"/", "etc", "cyhy.toml">>
CONFIG_PATH_HOME == HOME \o <<".cyhy", "cyhy.toml">>
CYHY_CONFIG_PATH_ENV == "CYHY_CONFIG_PATH"
CYHY_CONFIG_SSM_PATH_ENV == "CYHY_CONFIG_SSM_PATH"

(***************************************************************************)
(* Optional[str], truthiness, pathlib.Path                                 *)
(***************************************************************************)
None == [isNone |-> TRUE, str |-> <<>>]
Str(s) == [isNone |-> FALSE, str |-> s]

\* `if file_path:`, `if env_file_value:`, `if path:` -- set and not empty
StrTruthy(o) == ~o.isNone /\ o.str # <<>>

\* Path(s): pathlib drops the "." components of a path
Path(s) == SelectSeq(s, LAMBDA c : c # ".")

\* environ.get(name, None)
EnvironGet(name) == IF name \in DOMAIN environ THEN environ[name] ELSE None

(***************************************************************************)
(* Values a configuration can take: None, a dict, an instance of the model *)
(***************************************************************************)
EmptyDict == [k \in {} |-> 0]
NoneValue == [type |-> "None", items |-> EmptyDict]
DictValue(d) == [type |-> "dict", items |-> d]
ModelValue(d) == [type |-> "Model", items |-> d]

\* `if config:` -- None and the empty dict are falsy, a model instance is truthy
ConfigTruthy(v) ==
    CASE v.type = "None" -> FALSE
      [] v.type = "dict" -> DOMAIN v.items # {}
      [] OTHER -> TRUE

(***************************************************************************)
(* Outcomes and events                                                     *)
(***************************************************************************)
NoOutcome == [kind |-> "none", exc |-> "", msg |-> "", value |-> NoneValue, path |-> None]
Return(v) == [kind |-> "return", exc |-> "", msg |-> "", value |-> v, path |-> None]
ReturnPath(p) == [kind |-> "return", exc |-> "", msg |-> "", value |-> NoneValue, path |-> Str(p)]
Raise(exc, msg) == [kind |-> "raise", exc |-> exc, msg |-> msg, value |-> NoneValue, path |-> None]

\* An event is a log record, a filesystem call (exists, isfile, open) or an SSM
\* request (get_parameter). tier is the filesystem tier it is about (0: none),
\* source the entry of ssm_paths it is about ("": none).
Log(level, msg, tier, arg) ==
    [kind |-> "log", level |-> level, msg |-> msg, tier |-> tier, source |-> "", arg |-> arg]
Probe(kind, tier, arg) ==
    [kind |-> kind, level |-> "", msg |-> "", tier |-> tier, source |-> "", arg |-> arg]
SsmLog(level, msg, source, arg) ==
    [kind |-> "log", level |-> level, msg |-> msg, tier |-> 0, source |-> source, arg |-> arg]
SsmRequest(source, arg) ==
    [kind |-> "get_parameter", level |-> "", msg |-> "", tier |-> 0, source |-> source, arg |-> arg]

(***************************************************************************)
(* External collaborators: tomllib, pydantic, the filesystem, SSM          *)
(***************************************************************************)
\* TOML integer literals of the texts considered
IntLiteral(tok) == CASE tok = "0" -> 0 [] tok = "1" -> 1 [] tok = "2" -> 2 [] OTHER -> -1
WellFormedLine(l) == Len(l) = 3 /\ l[2] = "=" /\ IntLiteral(l[3]) >= 0

\* tomllib.loads / tomllib.load: every line is `key = integer`, no key twice
TomlLoads(text) ==
    LET keys == {text[i][1] : i \in DOMAIN text}
        good == /\ \A i \in DOMAIN text : WellFormedLine(text[i])
                /\ \A i, j \in DOMAIN text : text[i][1] = text[j][1] => i = j
    IN IF good
       THEN [ok |-> TRUE,
             dict |-> [k \in keys |->
                        IntLiteral(text[CHOOSE i \in DOMAIN text : text[i][1] = k][3])]]
       ELSE [ok |-> FALSE, dict |-> EmptyDict]

\* The caller's pydantic model: one required integer field, other keys ignored
ModelFields == {"x"}
NoModel == "None"
Model == "Model"

\* fs maps a path to [kind, text]; a path it does not hold is absent
FileAt(p) == IF p \in DOMAIN fs THEN fs[p] ELSE [kind |-> "absent", text |-> <<>>]
\* Faulty variant of PathExists: only regular files count as existing
PathExistsOnlyFiles(p) == FileAt(p).kind = "file"
\* Path.exists()
PathExists(p) == FileAt(p).kind # "absent"
\* Faulty variant of IsFile: the test is inverted
IsFileNegated(p) == FileAt(p).kind # "file"
\* os.path.isfile()
IsFile(p) == FileAt(p).kind = "file"

\* ssm.get_parameter(Name=path, WithDecryption=True): code "" is a response
\* carrying a value, any other code a ClientError with that error code
GetParameter(name) ==
    IF name \in DOMAIN ssm THEN ssm[name]
    ELSE [code |-> "ParameterNotFound", value |-> <<>>]

\* Faulty variant of ValidateConfig: the dictionary is returned unvalidated
ValidateConfigUnchecked(config_dict, model) ==
    [out |-> Return(DictValue(config_dict)),
     events |-> << Log("debug", "Parsed configuration", 0, <<>>) >>]

(***************************************************************************)
(* validate_config                                                         *)
(***************************************************************************)
ValidateConfig(config_dict, model) ==
    IF model = NoModel
    THEN [out |-> Return(DictValue(config_dict)),
          events |-> << Log("info", "No model provided, returning config as a dictionary.", 0, <<>>),
                        Log("debug", "Parsed configuration", 0, <<>>) >>]
    ELSE IF ModelFields \subseteq DOMAIN config_dict
         THEN [out |-> Return(ModelValue([k \in ModelFields |-> config_dict[k]])),
               events |-> << Log("debug", "Validated configuration", 0, <<>>) >>]
         ELSE [out |-> Raise("ValidationError", "Field required"),
               events |-> << Log("error", "ValidationError", 0, <<>>) >>]

(***************************************************************************)
(* read_config_file                                                        *)
(***************************************************************************)
ReadConfigFile(config_file, model) ==
    LET e0 == << Probe("isfile", 0, config_file) >>
    IN IF ~IsFile(config_file)
       THEN [out |-> Raise("FileNotFoundError", "Config file not found"),
             events |-> Append(e0, Log("error", "Config file not found", 0, config_file))]
       ELSE LET e1 == e0 \o << Log("debug", "Reading config file", 0, config_file),
                               Probe("open", 0, config_file) >>
                parsed == TomlLoads(FileAt(config_file).text)
            IN IF ~parsed.ok
               THEN [out |-> Raise("TOMLDecodeError", "Error decoding TOML file"),
                     events |-> Append(e1, Log("error", "Error decoding TOML file", 0, config_file))]
               ELSE LET v == ValidateConfig(parsed.dict, model)
                    IN [out |-> v.out, events |-> e1 \o v.events]

(***************************************************************************)
(* find_config_file: tier 1 the parameter, 2 the environment variable,     *)
(* 3 the working directory, 4 the home directory, 5 /etc                   *)
(***************************************************************************)
Found(ev, tier, msg, shown, p) ==
    [out |-> ReturnPath(p), events |-> Append(ev, Log("debug", msg, tier, shown))]

\* the three fixed locations, then the failure
FindFixed(ev) ==
    LET e3 == Append(ev, Probe("exists", 3, CONFIG_PATH_CWD))
        e4 == Append(e3, Probe("exists", 4, CONFIG_PATH_HOME))
        e5 == Append(e4, Probe("exists", 5, CONFIG_PATH_ETC))
    IN IF PathExists(CONFIG_PATH_CWD)
       THEN Found(e3, 3, "Using configuration file from current working directory", CONFIG_PATH_CWD, CONFIG_PATH_CWD)
       ELSE IF PathExists(CONFIG_PATH_HOME)
       THEN Found(e4, 4, "Using configuration file from home directory", CONFIG_PATH_HOME, CONFIG_PATH_HOME)
       ELSE IF PathExists(CONFIG_PATH_ETC)
       THEN Found(e5, 5, "Using configuration file from /etc directory", CONFIG_PATH_ETC, CONFIG_PATH_ETC)
       ELSE [out |-> Raise("FileNotFoundError", "No CyHy configuration file found."),
             events |-> Append(e5, Log("error", "No CyHy configuration file found.", 0, <<>>))]

\* Faulty variant of FindEnv: a missing CYHY_CONFIG_PATH file is passed over silently
FindEnvSilent(ev) ==
    LET env_file_value == EnvironGet(CYHY_CONFIG_PATH_ENV)
    IN IF StrTruthy(env_file_value)
       THEN LET env_path == Path(env_file_value.str)
                e2 == Append(ev, Probe("exists", 2, env_path))
            IN IF PathExists(env_path)
               THEN Found(e2, 2, "Using configuration file from environment variable", env_path, env_path)
               ELSE FindFixed(e2)
       ELSE FindFixed(ev)

\* the path named by CYHY_CONFIG_PATH
FindEnv(ev) ==
    LET env_file_value == EnvironGet(CYHY_CONFIG_PATH_ENV)
    IN IF StrTruthy(env_file_value)
       THEN LET env_path == Path(env_file_value.str)
                e2 == Append(ev, Probe("exists", 2, env_path))
            IN IF PathExists(env_path)
               THEN Found(e2, 2, "Using configuration file from environment variable", env_path, env_path)
               ELSE FindFixed(Append(e2,
                        Log("warning", "Configuration file from environment variable not found", 2, env_path)))
       ELSE FindFixed(ev)

FindConfigFile(file_path) ==
    IF StrTruthy(file_path)
    THEN LET e1 == << Probe("exists", 1, Path(file_path.str)) >>
         IN IF PathExists(Path(file_path.str))
            THEN Found(e1, 1, "Using configuration file passed as parameter", file_path.str,
                       Path(file_path.str))
            ELSE FindEnv(Append(e1,
                     Log("warning", "Configuration file passed as parameter not found", 1, file_path.str)))
    ELSE FindEnv(<< >>)

(***************************************************************************)
(* read_config_ssm                                                         *)
(***************************************************************************)
\* Faulty variant of SsmPaths: the environment's key is tried first
SsmPathsEnvironmentFirst(ssm_path) ==
    << [path |-> EnvironGet(CYHY_CONFIG_SSM_PATH_ENV), source |-> "environment variable"],
       [path |-> ssm_path, source |-> "path"] >>

SsmPaths(ssm_path) ==
    << [path |-> ssm_path, source |-> "path"],
       [path |-> EnvironGet(CYHY_CONFIG_SSM_PATH_ENV), source |-> "environment variable"] >>

\* Faulty variants of IsParameterNotFound: every error code is taken for a
\* missing parameter; the code is compared with the wrong name
IsParameterNotFoundAnyCode(code) == code # ""
IsParameterNotFoundWrongName(code) == code = "ParameterNotFoundException"

\* `e.response["Error"]["Code"] == "ParameterNotFound"`
IsParameterNotFound(code) == code = "ParameterNotFound"

\* what one non-empty key yields: the loop never goes past it
SsmFetch(path, source, model, ev) ==
    LET response == GetParameter(path)
        e1 == Append(ev, SsmRequest(source, path))
    IN IF response.code # ""
       THEN IF IsParameterNotFound(response.code)
            THEN [out |-> Return(NoneValue),
                  events |-> Append(e1, SsmLog("warning", "SSM parameter not found", source, path))]
            ELSE [out |-> Raise("ClientError", response.code),
                  events |-> Append(e1, SsmLog("error", "ClientError", source, path))]
       ELSE LET e2 == Append(e1, SsmLog("debug", "Using configuration file from SSM", source, path))
                parsed == TomlLoads(response.value)
            IN IF ~parsed.ok
               THEN [out |-> Raise("TOMLDecodeError", "Error decoding TOML"),
                     events |-> Append(e2, SsmLog("error", "Error decoding TOML", source, path))]
               ELSE LET v == ValidateConfig(parsed.dict, model)
                    IN [out |-> v.out, events |-> e2 \o v.events]

RECURSIVE SsmLoop(_, _, _, _)
SsmLoop(ssm_paths, i, model, ev) ==
    IF i > Len(ssm_paths)
    THEN [out |-> Return(NoneValue), events |-> ev]
    ELSE LET path == ssm_paths[i].path
             source == ssm_paths[i].source
             e0 == Append(ev, SsmLog("debug", "Checking SSM parameter", source,
                                  IF path.isNone THEN <<>> ELSE path.str))
         IN IF StrTruthy(path)
            THEN SsmFetch(path.str, source, model, e0)
            ELSE SsmLoop(ssm_paths, i + 1, model, e0)

ReadConfigSsm(ssm_path, model) == SsmLoop(SsmPaths(ssm_path), 1, model, << >>)

(***************************************************************************)
(* get_config                                                              *)
(***************************************************************************)
\* Faulty variant of GetConfig: an empty configuration stands in for a missing file
GetConfigDefault(file_path, ssm_path, model) ==
    LET config == ReadConfigSsm(ssm_path, model)
    IN IF config.out.kind = "raise" \/ ConfigTruthy(config.out.value)
       THEN [out |-> config.out, events |-> config.events, config_file_path |-> None]
       ELSE LET found == FindConfigFile(file_path)
            IN IF found.out.kind = "raise"
               THEN [out |-> Return(DictValue(EmptyDict)),
                     events |-> config.events \o found.events,
                     config_file_path |-> None]
               ELSE LET read == ReadConfigFile(found.out.path.str, model)
                    IN [out |-> read.out,
                        events |-> config.events \o found.events \o read.events,
                        config_file_path |-> found.out.path]

GetConfig(file_path, ssm_path, model) ==
    LET config == ReadConfigSsm(ssm_path, model)
    IN IF config.out.kind = "raise" \/ ConfigTruthy(config.out.value)
       THEN [out |-> config.out, events |-> config.events, config_file_path |-> None]
       ELSE LET found == FindConfigFile(file_path)
            IN IF found.out.kind = "raise"
               THEN [out |-> found.out, events |-> config.events \o found.events,
                     config_file_path |-> None]
               ELSE LET read == ReadConfigFile(found.out.path.str, model)
                    IN [out |-> read.out,
                        events |-> config.events \o found.events \o read.events,
                        config_file_path |-> found.out.path]

(***************************************************************************)
(* The inputs considered                                                   *)
(***************************************************************************)
UserPath == <<"conf", "a.toml">>
DottedCwd == <<".", "cyhy.toml">>
SsmNameA == <<"cyhy", "a">>
SsmNameB == <<"cyhy", "b">>

EmptyDoc == << >>
ValidDoc == << <<"x", "=", "1">> >>
OtherDoc == << <<"y", "=", "2">> >>
BadDoc == << <<"x", "=">> >>

Absent == [kind |-> "absent", text |-> << >>]
Dir == [kind |-> "dir", text |-> << >>]
File(text) == [kind |-> "file", text |-> text]

UserStates == {Absent, Dir, File(ValidDoc), File(OtherDoc), File(BadDoc)}
CwdStates == {Absent, Dir, File(ValidDoc), File(BadDoc)}
HomeStates == {Absent, File(ValidDoc)}
EtcStates == {Absent, File(ValidDoc)}
Filesystems ==
    { [p \in {UserPath, CONFIG_PATH_CWD, CONFIG_PATH_HOME, CONFIG_PATH_ETC} |->
          CASE p = UserPath -> u [] p = CONFIG_PATH_CWD -> c
            [] p = CONFIG_PATH_HOME -> h [] OTHER -> e]
      : u \in UserStates, c \in CwdStates, h \in HomeStates, e \in EtcStates }

Value(text) == [code |-> "", value |-> text]
Failure(code) == [code |-> code, value |-> << >>]
\* the values the store may hold for the first name: every text of at most
\* MaxLines lines
MaxLines == 1
Lines == {<<"x", "=", "1">>, <<"y", "=", "2">>, <<"x", "=">>}
Texts == UNION {[1 .. n -> Lines] : n \in 0 .. MaxLines}
ResponsesA == {Failure("ParameterNotFound"), Failure("AccessDeniedException")}
                  \cup {Value(text) : text \in Texts}
ResponsesB == {Failure("ParameterNotFound"), Value(ValidDoc)}
Stores ==
    { [n \in {SsmNameA, SsmNameB} |-> IF n = SsmNameA THEN a ELSE b]
      : a \in ResponsesA, b \in ResponsesB }

Environs ==
    { [v \in {CYHY_CONFIG_PATH_ENV, CYHY_CONFIG_SSM_PATH_ENV} |->
          IF v = CYHY_CONFIG_PATH_ENV THEN f ELSE k]
      : f \in {None, Str(<< >>), Str(UserPath)},
        k \in {None, Str(<< >>), Str(SsmNameA), Str(SsmNameB)} }

FilePathArgs == {None, Str(<< >>), Str(UserPath), Str(DottedCwd)}
SsmPathArgs == {None, Str(<< >>), Str(SsmNameA), Str(SsmNameB)}
ModelArgs == {NoModel, Model}

NoCall == [fn |-> "", file_path |-> None, ssm_path |-> None, model |-> NoModel]

(***************************************************************************)
(* The state machine. The module writes no global and keeps nothing from   *)
(* one call to the next, so a call's outcome depends on the process         *)
(* environment alone: a behaviour is an environment and one call of a       *)
(* public function in it.                                                   *)
(***************************************************************************)
Init ==
    /\ environ \in Environs
    /\ fs \in Filesystems
    /\ ssm \in Stores
    /\ call = NoCall
    /\ result = NoOutcome
    /\ events = << >>
    /\ config_file_path = None

CallGetConfig ==
    \E file_path \in FilePathArgs, ssm_path \in SsmPathArgs, model \in ModelArgs :
        LET r == GetConfig(file_path, ssm_path, model)
        IN /\ call = NoCall
           /\ call' = [fn |-> "get_config", file_path |-> file_path,
                       ssm_path |-> ssm_path, model |-> model]
           /\ result' = r.out
           /\ events' = r.events
           /\ config_file_path' = r.config_file_path
           /\ UNCHANGED <<environ, fs, ssm>>

CallFindConfigFile ==
    \E file_path \in FilePathArgs :
        LET r == FindConfigFile(file_path)
        IN /\ call = NoCall
           /\ call' = [fn |-> "find_config_file", file_path |-> file_path,
                       ssm_path |-> None, model |-> NoModel]
           /\ result' = r.out
           /\ events' = r.events
           /\ config_file_path' = None
           /\ UNCHANGED <<environ, fs, ssm>>

Next == CallGetConfig \/ CallFindConfigFile

Spec == Init /\ [][Next]_vars

(***************************************************************************)
(* Vocabulary of the properties, stated on the environment and the call    *)
(* and not through the operators above                                     *)
(***************************************************************************)
IsGet == call.fn = "get_config"
IsFind == call.fn = "find_config_file"

\* an argument or variable that is unset or empty
Unset(o) == o.isNone \/ o.str = << >>

Tiers == 1 .. 5

\* the candidate of a tier: None when the tier has none
TierCandidate(k) ==
    CASE k = 1 -> IF Unset(call.file_path) THEN None ELSE Str(Path(call.file_path.str))
      [] k = 2 -> IF Unset(environ[CYHY_CONFIG_PATH_ENV]) THEN None
                  ELSE Str(Path(environ[CYHY_CONFIG_PATH_ENV].str))
      [] k = 3 -> Str(CONFIG_PATH_CWD)
      [] k = 4 -> Str(CONFIG_PATH_HOME)
      [] OTHER -> Str(CONFIG_PATH_ETC)

OnDisk(p) == p \in DOMAIN fs /\ fs[p].kind # "absent"
RegularFile(p) == p \in DOMAIN fs /\ fs[p].kind = "file"
CandidateExists(k) == ~TierCandidate(k).isNone /\ OnDisk(TierCandidate(k).str)
FirstExisting(k) == CandidateExists(k) /\ \A j \in 1 .. (k - 1) : ~CandidateExists(j)
NoCandidateExists == \A k \in Tiers : ~CandidateExists(k)

FsKinds == {"exists", "isfile", "open"}
FilesystemConsulted == \E i \in DOMAIN events : events[i].kind \in FsKinds
FindEntered == IsFind \/ (IsGet /\ \E i \in DOMAIN events : events[i].kind = "exists")
Requests == SelectSeq(events, LAMBDA e : e.kind = "get_parameter")

\* the path find_config_file returned, None when it returned none
Selected == IF IsFind THEN result.path ELSE config_file_path

\* the remote key that is tried and what the store answers for it
KeyConfigured == ~Unset(call.ssm_path) \/ ~Unset(environ[CYHY_CONFIG_SSM_PATH_ENV])
TriedKey == IF ~Unset(call.ssm_path) THEN call.ssm_path.str
            ELSE environ[CYHY_CONFIG_SSM_PATH_ENV].str
StoreAnswer == ssm[TriedKey]

\* what the filesystem chain alone gives for the call's file_path and model
FilesystemChain ==
    LET found == FindConfigFile(call.file_path)
    IN IF found.out.kind = "raise" THEN found
       ELSE LET read == ReadConfigFile(found.out.path.str, call.model)
            IN [out |-> read.out, events |-> found.events \o read.events]

IsSuffix(t, q) ==
    Len(t) <= Len(q) /\ \A i \in DOMAIN t : t[i] = q[Len(q) - Len(t) + i]

(***************************************************************************)
(* C1: whenever find_config_file runs, alone or inside get_config, and a   *)
(* candidate exists at tier Tk while none exists at T1..Tk-1, the path it  *)
(* returns is exactly Tk's path.                                           *)
(***************************************************************************)
C1_FirstExistingTierSelected ==
    FindEntered =>
        \A k \in Tiers : FirstExisting(k) => Selected = TierCandidate(k)

\* get_config, file_path given but absent, nothing at tiers 2..4, /etc selected
C1_Witness ==
    /\ IsGet
    /\ ~Unset(call.file_path)
    /\ FirstExisting(5)
    /\ config_file_path = Str(CONFIG_PATH_ETC)

(***************************************************************************)
(* C3: when the request for the tried key fails with a code other than     *)
(* ParameterNotFound, get_config raises that ClientError and makes no      *)
(* filesystem call, whatever the filesystem holds.                         *)
(***************************************************************************)
C3_RemoteErrorIsFatal ==
    (IsGet /\ KeyConfigured /\ StoreAnswer.code \notin {"", "ParameterNotFound"}) =>
        /\ result.kind = "raise"
        /\ result.exc = "ClientError"
        /\ result.msg = StoreAnswer.code
        /\ ~FilesystemConsulted
        /\ config_file_path = None

\* the remote error is raised although a valid file is in the working directory
C3_Witness ==
    /\ IsGet
    /\ KeyConfigured
    /\ StoreAnswer.code = "AccessDeniedException"
    /\ fs[CONFIG_PATH_CWD] = File(ValidDoc)
    /\ result.exc = "ClientError"

(***************************************************************************)
(* C4: when the store answers ParameterNotFound for the tried key,         *)
(* get_config goes on with the filesystem chain, and its outcome is the    *)
(* outcome of find_config_file then read_config_file alone.                *)
(***************************************************************************)
C4_NotFoundFallsThrough ==
    (IsGet /\ KeyConfigured /\ StoreAnswer.code = "ParameterNotFound") =>
        /\ result = FilesystemChain.out
        /\ IsSuffix(FilesystemChain.events, events)
        /\ FilesystemConsulted

\* ParameterNotFound, then the file of the working directory is returned
C4_Witness ==
    /\ IsGet
    /\ KeyConfigured
    /\ StoreAnswer.code = "ParameterNotFound"
    /\ config_file_path = Str(CONFIG_PATH_CWD)
    /\ result.kind = "return"
    /\ result.value = DictValue([x |-> 1])

(***************************************************************************)
(* C5: a call of get_config issues no get_parameter request when neither   *)
(* key is set and non-empty, and otherwise exactly one, for the explicit   *)
(* key if it is non-empty and else for the environment's key.              *)
(***************************************************************************)
C5_AtMostOneRequest ==
    IsGet =>
        /\ Len(Requests) <= 1
        /\ ~KeyConfigured => Len(Requests) = 0
        /\ KeyConfigured => (Len(Requests) = 1 /\ Requests[1].arg = TriedKey)

\* both keys set, the explicit one not found: the environment's key is not asked
C5_Witness ==
    /\ IsGet
    /\ call.ssm_path = Str(SsmNameA)
    /\ environ[CYHY_CONFIG_SSM_PATH_ENV] = Str(SsmNameB)
    /\ ssm[SsmNameA].code = "ParameterNotFound"
    /\ ssm[SsmNameB].code = ""
    /\ Len(Requests) = 1
    /\ Requests[1].arg = SsmNameA

(***************************************************************************)
(* C6: with no remote key configured and no existing path at any of the    *)
(* five tiers, get_config raises the FileNotFoundError of                  *)
(* find_config_file and returns no configuration.                          *)
(***************************************************************************)
C6_NothingAnywhereRaises ==
    (IsGet /\ ~KeyConfigured /\ NoCandidateExists) =>
        /\ result.kind = "raise"
        /\ result.exc = "FileNotFoundError"
        /\ result.msg = "No CyHy configuration file found."

\* file_path and CYHY_CONFIG_PATH both name a path that is absent
C6_Witness ==
    /\ IsGet
    /\ ~KeyConfigured
    /\ NoCandidateExists
    /\ ~Unset(call.file_path)
    /\ ~Unset(environ[CYHY_CONFIG_PATH_ENV])
    /\ result.exc = "FileNotFoundError"

(***************************************************************************)
(* C2: when get_config is called with a non-empty ssm_path for which the   *)
(* store returns a value, whatever it decodes to, the outcome is the       *)
(* decoded and validated remote value and no filesystem call is made.      *)
(***************************************************************************)
RemoteDecoded ==
    LET parsed == TomlLoads(StoreAnswer.value)
    IN IF parsed.ok THEN ValidateConfig(parsed.dict, call.model).out
       ELSE Raise("TOMLDecodeError", "Error decoding TOML")

C2_RemoteValueNeverTouchesFilesystem ==
    (IsGet /\ ~Unset(call.ssm_path) /\ StoreAnswer.code = "") =>
        /\ result = RemoteDecoded
        /\ ~FilesystemConsulted
        /\ config_file_path = None

(***************************************************************************)
(* C7: the location passed as a parameter is searched before the SSM       *)
(* parameter named by the environment: when file_path exists and           *)
(* CYHY_CONFIG_SSM_PATH names a parameter the store returns, the           *)
(* configuration is read from file_path and SSM is not asked.              *)
(***************************************************************************)
C7_ParameterFileBeforeSsmVariable ==
    (/\ IsGet
     /\ Unset(call.ssm_path)
     /\ CandidateExists(1)
     /\ ~Unset(environ[CYHY_CONFIG_SSM_PATH_ENV])
     /\ StoreAnswer.code = "") =>
        /\ config_file_path = TierCandidate(1)
        /\ Len(Requests) = 0

(***************************************************************************)
(* C8 as stated: in find_config_file every candidate rejected because its  *)
(* path does not exist, at any of the five tiers, is followed by a warning *)
(* record for that tier before anything else happens, and the accepted     *)
(* candidate by the one debug record, which names its tier.                *)
(***************************************************************************)
IsExistsProbe(i) == events[i].kind = "exists"
Rejected(i) == IsExistsProbe(i) /\ ~OnDisk(events[i].arg)
Accepted(i) == IsExistsProbe(i) /\ OnDisk(events[i].arg)
WarningFollows(i) ==
    /\ i + 1 \in DOMAIN events
    /\ events[i + 1].kind = "log"
    /\ events[i + 1].level = "warning"
    /\ events[i + 1].tier = events[i].tier
DebugFollows(i) ==
    /\ i + 1 \in DOMAIN events
    /\ events[i + 1].kind = "log"
    /\ events[i + 1].level = "debug"
    /\ events[i + 1].tier = events[i].tier
TierDebugRecords == {i \in DOMAIN events :
    events[i].kind = "log" /\ events[i].level = "debug" /\ events[i].tier \in Tiers}
TierWarningRecords == {i \in DOMAIN events :
    events[i].kind = "log" /\ events[i].level = "warning" /\ events[i].tier \in Tiers}
AcceptedLogged ==
    /\ \A i \in DOMAIN events : Accepted(i) => DebugFollows(i)
    /\ Cardinality(TierDebugRecords) = Cardinality({i \in DOMAIN events : Accepted(i)})
    /\ Cardinality(TierDebugRecords) <= 1

C8_EveryRejectedTierWarns ==
    FindEntered =>
        /\ \A i \in DOMAIN events : Rejected(i) => WarningFollows(i)
        /\ AcceptedLogged

(***************************************************************************)
(* C8 amended: a rejected candidate of tier 1 (the parameter) or tier 2    *)
(* (CYHY_CONFIG_PATH) is followed by a warning record for that tier before *)
(* the next tier is examined; a rejected candidate of tiers 3..5 (working  *)
(* directory, home, /etc) produces no record; the accepted candidate is    *)
(* followed by the one debug record, which names its tier.                 *)
(***************************************************************************)
C8_OnlyNamedPathsWarn ==
    FindEntered =>
        /\ \A i \in DOMAIN events :
              Rejected(i) /\ events[i].tier \in {1, 2} => WarningFollows(i)
        /\ \A i \in DOMAIN events :
              Rejected(i) /\ events[i].tier \in {3, 4, 5} =>
                  /\ i + 1 \in DOMAIN events
                  /\ \/ events[i + 1].kind = "exists" /\ events[i + 1].tier = events[i].tier + 1
                     \/ events[i].tier = 5 /\ events[i + 1].level = "error"
        /\ \A i \in TierWarningRecords : i - 1 \in DOMAIN events /\ Rejected(i - 1)
        /\ AcceptedLogged

\* both named paths rejected with a warning, two fixed ones silently, /etc accepted
C8_Witness ==
    /\ IsFind
    /\ FirstExisting(5)
    /\ ~Unset(call.file_path)
    /\ ~Unset(environ[CYHY_CONFIG_PATH_ENV])
    /\ Cardinality(TierWarningRecords) = 2
    /\ Cardinality({i \in DOMAIN events : Rejected(i)}) = 4
    /\ Cardinality(TierDebugRecords) = 1
    /\ result.path = Str(CONFIG_PATH_ETC)

(***************************************************************************)
(* C9 as stated: when get_config raises FileNotFoundError, no candidate    *)
(* path exists at any of the five tiers.                                   *)
(***************************************************************************)
RaisedNotFound == IsGet /\ result.kind = "raise" /\ result.exc = "FileNotFoundError"

C9_NotFoundMeansNoCandidate ==
    RaisedNotFound => NoCandidateExists

(***************************************************************************)
(* C9 amended: when get_config raises FileNotFoundError, either no         *)
(* candidate path exists at any of the five tiers, or the first candidate  *)
(* that exists, in precedence order, is not a regular file; whenever the   *)
(* first existing candidate is a regular file get_config does not end in   *)
(* FileNotFoundError.                                                      *)
(***************************************************************************)
C9_NotFoundMeansNoRegularFileFirst ==
    RaisedNotFound =>
        \/ NoCandidateExists
        \/ \E k \in Tiers : FirstExisting(k) /\ ~RegularFile(TierCandidate(k).str)

\* a directory at the parameter's path hides the valid file of /etc
C9_Witness ==
    /\ RaisedNotFound
    /\ FirstExisting(1)
    /\ fs[TierCandidate(1).str] = Dir
    /\ fs[CONFIG_PATH_ETC] = File(ValidDoc)
    /\ result.msg = "Config file not found"

(***************************************************************************)
(* C10: a decoding or validation failure on content already obtained is    *)
(* the outcome of the call: for a remote value, get_config raises it and   *)
(* makes no filesystem call; for the selected file, get_config raises it   *)
(* and examines no tier below the selected one.                            *)
(***************************************************************************)
Malformed(text) == ~TomlLoads(text).ok
ViolatesModel(text) ==
    /\ TomlLoads(text).ok
    /\ call.model = Model
    /\ ~(ModelFields \subseteq DOMAIN TomlLoads(text).dict)
FailureOf(text) == IF Malformed(text) THEN "TOMLDecodeError" ELSE "ValidationError"
RemoteValueFetched == IsGet /\ KeyConfigured /\ StoreAnswer.code = ""
FileSelected == IsGet /\ ~config_file_path.isNone /\ RegularFile(config_file_path.str)
SelectedTier == CHOOSE k \in Tiers : FirstExisting(k)
SelectedText == fs[config_file_path.str].text

C10_DecodeAndSchemaFailuresAreTerminal ==
    /\ (RemoteValueFetched /\ (Malformed(StoreAnswer.value) \/ ViolatesModel(StoreAnswer.value))) =>
          /\ result.kind = "raise"
          /\ result.exc = FailureOf(StoreAnswer.value)
          /\ ~FilesystemConsulted
    /\ (FileSelected /\ (Malformed(SelectedText) \/ ViolatesModel(SelectedText))) =>
          /\ result.kind = "raise"
          /\ result.exc = FailureOf(SelectedText)
          /\ \A i \in DOMAIN events :
                events[i].kind \in FsKinds =>
                    /\ events[i].tier <= SelectedTier
                    /\ events[i].kind # "exists" => events[i].arg = config_file_path.str

\* the remote value violates the model while a valid file is in the working directory
C10_Witness ==
    /\ RemoteValueFetched
    /\ ViolatesModel(StoreAnswer.value)
    /\ fs[CONFIG_PATH_CWD] = File(ValidDoc)
    /\ result.exc = "ValidationError"

====
